---- MODULE Spec2Model ----
(***************************************************************************)
(* Model of the retail sales generator of simondmorias/green_data:         *)
(*   - TimeDimensionGenerator.generate_time         (generate_rgm_data.py) *)
(*   - FactSalesGenerator.generate_fact_sales       (generate_rgm_data.py) *)
(*   - HierarchicalSalesModel, BrandStoryGenerator, TemporalSalesModel,    *)
(*     BrandShareController, SeasonalModel, PriceElasticityModel           *)
(*                                                  (statistical_models.py)*)
(*                                                                         *)
(* Money is held in fixed point, in hundredths (Unit = 100); a float       *)
(* product a * n / d is MulDiv(a, n, d), rounded down after each           *)
(* operation in the order the code multiplies.  The numpy generator is a   *)
(* stream of quantiles: every draw site maps the quantile it receives to   *)
(* a value of its own distribution.                                        *)
(***************************************************************************)
EXTENDS Integers, Sequences, FiniteSets, TLC

VARIABLES
    times,          \* generate_time: the rows appended so far (time keys)
    current_date,   \* generate_time: days since start_date's year began
    pc,             \* generate_fact_sales: NotStarted / PeriodLoop / Done
    time,           \* FactSalesGenerator.time: the period sequence
    time_idx,       \* position of the period loop (1-based)
    product_idx,    \* position of the product loop inside the period
    period_records, \* the records of the period being built
    sales_history,  \* TemporalSalesModel.sales_history
    written,        \* what _write_records_to_year received, batch by batch
    calls,          \* log of the model calls of the run, in call order
    rng,            \* the numpy generator: [stream, pos]
    products,       \* FactSalesGenerator.products: the catalog rows
    geography,      \* FactSalesGenerator.geography: the geography rows
    sampled_products, \* the product rows the period loop iterates over
    geo_sales,      \* the allocation of the product being processed (items)
    geo_idx,        \* position of the loop over geo_sales.items()
    previous_run,   \* what an earlier run of the program wrote, if there was one
    alloc,          \* one call of generate_hierarchical_sales
    share           \* one call of adjust_for_target_share

vars == <<times, current_date, pc, time, time_idx, product_idx, period_records,
          sales_history, written, calls, rng, products, geography,
          sampled_products, geo_sales, geo_idx, previous_run, alloc, share>>

timeVars == <<times, current_date>>
runVars == <<pc, time, time_idx, product_idx, period_records, sales_history,
             written, calls, rng, products, geography, sampled_products,
             geo_sales, geo_idx, previous_run>>

(***************************************************************************)
(* Arithmetic helpers                                                      *)
(***************************************************************************)
Abs(x) == IF x < 0 THEN -x ELSE x
Min(a, b) == IF a <= b THEN a ELSE b
Max(a, b) == IF a >= b THEN a ELSE b
Clip(x, lo, hi) == Max(lo, Min(hi, x))

\* the radix of the digits of n that MulDivQR works through: 16 when 32 times
\* a and 32 times d can be formed, else 2
Radix(a, d) == IF Abs(a) < 67108864 /\ d < 67108864 THEN 16 ELSE 2

\* <<q, r>> with a * n = q * d + r and 0 <= r < d, for n >= 0 and d > 0,
\* digit of n by digit, so that the product a * n is never formed
RECURSIVE MulDivQR(_, _, _)
MulDivQR(a, n, d) ==
    IF n = 0 THEN <<0, 0>>
    ELSE LET B == Radix(a, d)
             h == MulDivQR(a, n \div B, d)
             s == B * h[2] + (n % B) * a
         IN <<B * h[1] + s \div d, s % d>>

\* floor(a * n / d) for n >= 0 and d > 0, in 32-bit integers: computed
\* directly when a * n can be formed, from the quotients and remainders of a
\* and n by d when their products can be formed, else digit by digit
MulDiv(a, n, d) ==
    IF a = 0 \/ n = 0 THEN 0
    ELSE IF Abs(a) <= 2147483647 \div n THEN (a * n) \div d
    ELSE IF d <= 46340 /\ Abs(a \div d) <= 2147483647 \div (2 * n)
    THEN (a \div d) * n + (a % d) * (n \div d) + ((a % d) * (n % d)) \div d
    ELSE MulDivQR(a, n, d)[1]

\* a / b < c / d for a, c >= 0 and b, d > 0, exactly (Euclid's descent)
RECURSIVE FracLess(_, _, _, _)
FracLess(a, b, c, d) ==
    IF a \div b # c \div d THEN a \div b < c \div d
    ELSE IF c % d = 0 THEN FALSE
    ELSE IF a % b = 0 THEN TRUE
    ELSE FracLess(d, c % d, b, a % b)

\* F(x) with x evaluated once, before F is applied to it
Strict(x, F(_)) == CHOOSE y \in {F(v) : v \in {x}} : TRUE

(***************************************************************************)
(* The calendar (datetime, isocalendar) as generate_time uses it.  A date  *)
(* is the number of days since 1 January of StartYear.                     *)
(***************************************************************************)
StartYear == 2022
NWeeks == 208

IsLeap(y) == (y % 4 = 0 /\ y % 100 # 0) \/ y % 400 = 0
DaysInYear(y) == IF IsLeap(y) THEN 366 ELSE 365

\* date of 1 January of year y, for y >= StartYear - 1
RECURSIVE YearStart(_)
YearStart(y) ==
    IF y = StartYear THEN 0
    ELSE IF y < StartYear THEN 0 - DaysInYear(y)
    ELSE YearStart(y - 1) + DaysInYear(y - 1)

RECURSIVE YearFrom(_, _)
YearFrom(d, y) == IF d < YearStart(y + 1) THEN y ELSE YearFrom(d, y + 1)
YearOf(d) == YearFrom(d, StartYear)

\* date.weekday(): Monday = 0 ... Sunday = 6; 1 January 2022 is a Saturday
Weekday(d) == (5 + d + 371) % 7

DayOfYear(d) == d - YearStart(YearOf(d)) + 1

\* number of ISO weeks of year y: 53 when 1 January is a Thursday, or a
\* Wednesday in a leap year
IsoWeeksInYear(y) ==
    LET wd == Weekday(YearStart(y))
    IN IF wd = 3 \/ (wd = 2 /\ IsLeap(y)) THEN 53 ELSE 52

\* date.isocalendar()[1]
IsoWeek(d) ==
    LET y == YearOf(d)
        w == (DayOfYear(d) - (Weekday(d) + 1) + 10) \div 7
    IN IF w < 1 THEN IsoWeeksInYear(y - 1)
       ELSE IF w > IsoWeeksInYear(y) THEN 1
       ELSE w

\* the next Saturday on or after current_date
WeekEnding(d) ==
    LET days_until_saturday == (5 - Weekday(d) + 7) % 7
    IN d + (IF days_until_saturday = 0 /\ Weekday(d) # 5 THEN 7
            ELSE days_until_saturday)

\* time_key = (year % 100) * 100 + week_number, the YYWW key of one row
TimeKeyOf(d) ==
    LET week_ending == WeekEnding(d)
    IN (YearOf(week_ending) % 100) * 100 + IsoWeek(week_ending)

\* one iteration of the loop of generate_time
GenerateWeek ==
    /\ Len(times) < NWeeks
    /\ times' = Append(times, TimeKeyOf(current_date))
    /\ current_date' = current_date + 7
    /\ UNCHANGED <<runVars, alloc, share>>

\* the rows generate_time(start, n) returns
GenerateTime(start, n) == [i \in 1..n |-> TimeKeyOf(start + 7 * (i - 1))]

(***************************************************************************)
(* The numpy generator.  A stream is a finite sequence of quantiles (in    *)
(* thousandths) that the generator hands out in order, cyclically; pos is  *)
(* the number of draws taken so far, modulo the stream's length.           *)
(***************************************************************************)
StreamLen == 4
Quantiles == {0, 500, 999}
Streams == [1..StreamLen -> Quantiles]

\* the k-th draw from now (k = 0 is the next one)
Draw(r, k) == r.stream[((r.pos + k) % Len(r.stream)) + 1]
Advance(r, n) == [r EXCEPT !.pos = (r.pos + n) % Len(r.stream)]

\* np.random.uniform(lo, hi) at quantile q; lo, hi and the result share a scale
Uniform(lo, hi, q) == lo + MulDiv(hi - lo, q, 1000)

\* np.random.random() at quantile q, in thousandths
Random(q) == q

\* np.random.lognormal(6.0, 2.5) at quantile q, in hundredths:
\* exp(6 - 2.5), exp(6), exp(6 + 2.5)
LogNormalRoot(q) == IF q < 250 THEN 3312 ELSE IF q < 750 THEN 40343 ELSE 491477

(***************************************************************************)
(* HierarchicalSalesModel                                                  *)
(***************************************************************************)
None == 0

\* rows of GeographyDimensionGenerator.generate_geography (a sub-tree of the
\* table: the root, three retailers, the sub-formats of two of them); a
\* description is the sequence of its words
Geography == <<
    [geography_key |-> 27000001, geography_description |-> <<"IRI", "All", "Outlets">>,
     parent_key |-> None, hierarchy_level |-> 0],
    [geography_key |-> 27700001, geography_description |-> <<"Aldi">>,
     parent_key |-> 27000001, hierarchy_level |-> 1],
    [geography_key |-> 27100001, geography_description |-> <<"Tesco">>,
     parent_key |-> 27000001, hierarchy_level |-> 1],
    [geography_key |-> 27500001, geography_description |-> <<"Waitrose">>,
     parent_key |-> 27000001, hierarchy_level |-> 1],
    [geography_key |-> 27100002, geography_description |-> <<"Tesco", "Online">>,
     parent_key |-> 27100001, hierarchy_level |-> 2],
    [geography_key |-> 27100003, geography_description |-> <<"Tesco", "Express">>,
     parent_key |-> 27100001, hierarchy_level |-> 2],
    [geography_key |-> 27100004, geography_description |-> <<"Tesco", "Metro">>,
     parent_key |-> 27100001, hierarchy_level |-> 2],
    [geography_key |-> 27100005, geography_description |-> <<"Tesco", "Extra">>,
     parent_key |-> 27100001, hierarchy_level |-> 2],
    [geography_key |-> 27500002, geography_description |-> <<"Waitrose", "Online">>,
     parent_key |-> 27500001, hierarchy_level |-> 2] >>

\* the key of the root row
RootKey == 27000001

\* the root and two retailers, one of them with an online channel
SmallGeography == <<Geography[1], Geography[2], Geography[4], Geography[9]>>

\* str.lower() on the words of the geography descriptions
Lower(w) ==
    CASE w = "IRI" -> "iri" [] w = "All" -> "all" [] w = "Outlets" -> "outlets"
      [] w = "Aldi" -> "aldi" [] w = "Tesco" -> "tesco"
      [] w = "Waitrose" -> "waitrose" [] w = "Online" -> "online"
      [] w = "Express" -> "express" [] w = "Metro" -> "metro"
      [] w = "Extra" -> "extra" [] OTHER -> w

\* `word in name` (case sensitive) and `word in name.lower()`
HasWord(name, w) == \E i \in 1..Len(name) : name[i] = w
HasLowerWord(name, w) == \E i \in 1..Len(name) : Lower(name[i]) = w

\* SalesParameters(min_val, max_val) per store type, in hundredths
store_params(store_type) ==
    CASE store_type = "IRI All Outlets" -> [min_val |-> 1000, max_val |-> 10000000]
      [] store_type = "premium" -> [min_val |-> 500, max_val |-> 5000000]
      [] store_type = "major" -> [min_val |-> 200, max_val |-> 4000000]
      [] store_type = "discount" -> [min_val |-> 100, max_val |-> 3000000]
      [] store_type = "convenience" -> [min_val |-> 50, max_val |-> 1000000]
      [] store_type = "online" -> [min_val |-> 100, max_val |-> 2000000]

_get_store_type(store_name) ==
    IF store_name = <<"IRI", "All", "Outlets">> THEN "IRI All Outlets"
    ELSE IF HasLowerWord(store_name, "waitrose") THEN "premium"
    ELSE IF HasLowerWord(store_name, "aldi") \/ HasLowerWord(store_name, "lidl")
            \/ HasLowerWord(store_name, "poundland") THEN "discount"
    ELSE IF HasLowerWord(store_name, "online") THEN "online"
    ELSE IF \E x \in {"express", "local", "metro", "convenience"} :
                HasLowerWord(store_name, x) THEN "convenience"
    ELSE "major"

\* a Python dict as the sequence of its <<key, value>> items, in insertion order
DictHas(d, k) == \E i \in 1..Len(d) : d[i][1] = k
DictGet(d, k) == d[CHOOSE i \in 1..Len(d) : d[i][1] = k][2]
DictSet(d, k, v) ==
    IF DictHas(d, k)
    THEN [d EXCEPT ![CHOOSE i \in 1..Len(d) : d[i][1] = k] = <<k, v>>]
    ELSE Append(d, <<k, v>>)
DictKeys(d) == {d[i][1] : i \in 1..Len(d)}

\* one row of _build_hierarchy's loop on the dictionary h
BuildRow(h, row) ==
    LET k == row.geography_key
        p == row.parent_key
    IN IF p = None THEN DictSet(h, k, <<>>)
       ELSE LET h1 == IF DictHas(h, p) THEN h ELSE DictSet(h, p, <<>>)
                h2 == DictSet(h1, p, Append(DictGet(h1, p), k))
            IN DictSet(h2, k, <<>>)

\* _build_hierarchy: key -> list of children, row by row; BuildFrom is the
\* dictionary after the first i rows, starting from h
RECURSIVE BuildFrom(_, _, _)
BuildFrom(rows, i, h) ==
    IF i = 0 THEN h
    ELSE Strict(BuildFrom(rows, i - 1, h), LAMBDA before : BuildRow(before, rows[i]))
_build_hierarchy(rows) == BuildFrom(rows, Len(rows), <<>>)

ChildrenOf(hierarchy, k) == IF DictHas(hierarchy, k) THEN DictGet(hierarchy, k) ELSE <<>>

\* tenths: 1.5 for premium, 0.7 for discount, 1.0 otherwise
StoreWeight(store) ==
    LET store_type == _get_store_type(store.geography_description)
    IN IF store_type = "premium" THEN 15
       ELSE IF store_type = "discount" THEN 7 ELSE 10

\* the children loop of one level-1 store; st = [sales, rng]
RECURSIVE AllocChildren(_, _, _, _, _, _)
AllocChildren(rows, children, j, store_sales, remaining, st) ==
    IF j > Len(children) THEN st
    ELSE LET child_key == children[j]
             IsChild(row) == row.geography_key = child_key
             child_store == SelectSeq(rows, IsChild)
         IN IF child_store = <<>>
            THEN AllocChildren(rows, children, j + 1, store_sales, remaining, st)
            ELSE LET child_name == child_store[1].geography_description
                     q == Draw(st.rng, 0)
                     child_sales ==
                         IF HasWord(child_name, "Online")
                         THEN MulDiv(store_sales, Uniform(100, 300, q), 1000)
                         ELSE MulDiv(remaining, Uniform(200, 500, q), 1000)
                 IN Strict([sales |-> DictSet(st.sales, child_key, child_sales),
                            rng |-> Advance(st.rng, 1)],
                           LAMBDA st1 : AllocChildren(rows, children, j + 1, store_sales,
                                                      remaining, st1))

\* a variant of ClampStore that clamps from above only
ClampStoreFromAbove(store_sales, params) == Min(store_sales, params.max_val)

\* the clamp of a level-1 allocation to its store type's profile
ClampStore(store_sales, params) == Clip(store_sales, params.min_val, params.max_val)

\* the two jitter factors applied to a level-1 store's share of the target
JitterStore(share_of_target, q1, q2) ==
    MulDiv(MulDiv(share_of_target, Uniform(900, 1100, q1), 1000),
           Uniform(800, 1200, q2), 1000)

\* a variant of Remaining that passes the whole parent allocation down
RemainingWhole(store_sales, child_pct) == store_sales

\* what a non-online child is a fraction of: the parent's pass-down remainder
Remaining(store_sales, child_pct) == MulDiv(store_sales, child_pct, 1000)

\* the level-1 loop; weights are in tenths and W is their sum
RECURSIVE AllocStores(_, _, _, _, _, _, _, _)
AllocStores(rows, hierarchy, level1_stores, i, iri_key, level1_target, W, st) ==
    IF i > Len(level1_stores) THEN st
    ELSE LET store == level1_stores[i]
         IN IF store.geography_key = iri_key
            THEN AllocStores(rows, hierarchy, level1_stores, i + 1, iri_key,
                             level1_target, W, st)
            ELSE LET params == store_params(_get_store_type(store.geography_description))
                     store_sales ==
                         ClampStore(
                             JitterStore(MulDiv(level1_target, StoreWeight(store), W),
                                         Draw(st.rng, 0), Draw(st.rng, 1)),
                             params)
                     st1 == [sales |-> DictSet(st.sales, store.geography_key, store_sales),
                             rng |-> Advance(st.rng, 2)]
                     children == ChildrenOf(hierarchy, store.geography_key)
                     st2 == IF children # <<>>
                            THEN LET child_pct == Uniform(300, 700, Draw(st1.rng, 0))
                                 IN AllocChildren(rows, children, 1, store_sales,
                                        Remaining(store_sales, child_pct),
                                        [st1 EXCEPT !.rng = Advance(st1.rng, 1)])
                            ELSE st1
                 IN Strict(st2, LAMBDA st3 :
                               AllocStores(rows, hierarchy, level1_stores, i + 1, iri_key,
                                           level1_target, W, st3))

IsRootName(row) == row.geography_description = <<"IRI", "All", "Outlets">>
IsLevel1(row) == row.hierarchy_level = 1

\* level1_target = iri_sales / 2.5
Level1Target(iri_sales) == MulDiv(iri_sales, 2, 5)

\* the root draw, scaled by base_multiplier (thousandths) and clamped
RootSales(q, base_multiplier) ==
    LET params == store_params("IRI All Outlets")
    IN Clip(MulDiv(LogNormalRoot(q), base_multiplier, 1000), params.min_val, params.max_val)

RECURSIVE SumWeights(_)
SumWeights(stores) ==
    IF stores = <<>> THEN 0 ELSE StoreWeight(Head(stores)) + SumWeights(Tail(stores))

\* generate_hierarchical_sales(product_key, time_key, base_multiplier) with the
\* generator in state r: [error, sales, rng]
generate_hierarchical_sales(rows, base_multiplier, r) ==
    LET iri_rows == SelectSeq(rows, IsRootName)
    IN IF iri_rows = <<>>
       THEN [error |-> TRUE, sales |-> <<>>, rng |-> r]
       ELSE LET iri_key == iri_rows[1].geography_key
                iri_sales == RootSales(Draw(r, 0), base_multiplier)
                level1_stores == SelectSeq(rows, IsLevel1)
                st == AllocStores(rows, _build_hierarchy(rows), level1_stores, 1, iri_key,
                                  Level1Target(iri_sales), SumWeights(level1_stores),
                                  [sales |-> <<<<iri_key, iri_sales>>>>,
                                   rng |-> Advance(r, 1)])
            IN [error |-> FALSE, sales |-> st.sales, rng |-> st.rng]

(***************************************************************************)
(* The product catalog (rows of ProductDimensionGenerator.generate_products*)
(* that the engine reads); a text field is the sequence of its words.      *)
(***************************************************************************)
Products == <<
    [product_key |-> 1, manufacturer_value |-> <<"BIG", "BITE", "CHOCOLATES">>,
     brand_value |-> <<"Big", "Bite", "Original">>,
     segment_value |-> <<"BLOCKS", "&", "TABLETS">>,
     subsegment_value |-> <<"MILK">>],
    [product_key |-> 2, manufacturer_value |-> <<"MARS">>,
     brand_value |-> <<"SNICKERS">>,
     segment_value |-> <<"COUNTLINES">>,
     subsegment_value |-> <<"NUT">>],
    [product_key |-> 3, manufacturer_value |-> <<"LINDT">>,
     brand_value |-> <<"LINDT">>,
     segment_value |-> <<"SEASONAL", "&", "GIFTING">>,
     subsegment_value |-> <<"ADVENT", "CALENDARS">>] >>

\* str.upper() on the words of the catalog that are not upper case already
Upper(w) ==
    CASE w = "Big" -> "BIG" [] w = "Bite" -> "BITE" [] w = "Original" -> "ORIGINAL"
      [] w = "Deluxe" -> "DELUXE" [] w = "Velvet" -> "VELVET"
      [] w = "Crunch" -> "CRUNCH" [] OTHER -> w

\* str.contains(word, case=False) and str.contains of a two-word phrase
ContainsWord(text, w) == \E i \in 1..Len(text) : Upper(text[i]) = w
ContainsPhrase(text, w1, w2) ==
    \E i \in 1..(Len(text) - 1) : Upper(text[i]) = w1 /\ Upper(text[i + 1]) = w2

(***************************************************************************)
(* BrandShareController                                                    *)
(***************************************************************************)
\* _identify_big_bite_products: the keys whose brand_value contains BIG BITE
_identify_big_bite_products(products_df) ==
    {products_df[i].product_key : i \in
        {j \in 1..Len(products_df) : ContainsPhrase(products_df[j].brand_value, "BIG", "BITE")}}

\* sum of a column over the rows that satisfy a mask
RECURSIVE SumWhere(_, _, _)
SumWhere(rows, mask, col) ==
    IF rows = <<>> THEN 0
    ELSE (IF mask[1] THEN Head(rows)[col] ELSE 0)
         + SumWhere(Tail(rows), Tail(mask), col)

PeriodMask(sales_data, time_key) ==
    [i \in 1..Len(sales_data) |-> sales_data[i].time_key = time_key]
BigBiteMask(sales_data, big_bite_products) ==
    [i \in 1..Len(sales_data) |-> sales_data[i].product_key \in big_bite_products]
BothMasks(m1, m2) == [i \in 1..Len(m1) |-> m1[i] /\ m2[i]]

\* the band, in 208ths of a percent: weeks_elapsed = time_key - 2201,
\* years_elapsed = weeks_elapsed / 52,
\* adjusted_min = min(7.0, 4.0 + 0.75 * years), adjusted_max = min(10.0, 6.0 + years)
adjusted_min(time_key) == Min(1456, 832 + 3 * (time_key - 2201))
adjusted_max(time_key) == Min(2080, 1248 + 4 * (time_key - 2201))

\* calculate_market_share as the pair <<big_bite_sales, total_sales>>; the
\* share is 0.0 when the period is empty or its total is not positive
MarketShareParts(sales_data, time_key, big_bite_products) ==
    LET pm == PeriodMask(sales_data, time_key)
        bm == BigBiteMask(sales_data, big_bite_products)
    IN <<SumWhere(sales_data, BothMasks(pm, bm), "value_sales"),
         SumWhere(sales_data, pm, "value_sales")>>

\* a variant of ShareBelow that finds every share below the bound
ShareAlwaysBelow(parts, bound208) == TRUE

\* share < bound and share > bound, the bound in 208ths of a percent
ShareBelow(parts, bound208) ==
    IF parts[2] > 0 THEN FracLess(parts[1], parts[2], bound208, 20800)
    ELSE 0 < bound208
ShareAbove(parts, bound208) ==
    IF parts[2] > 0 THEN FracLess(bound208, 20800, parts[1], parts[2])
    ELSE 0 > bound208

\* a variant of ScaleRow that shifts the three columns by the gap between the
\* required and the current brand total instead of scaling them
ScaleRowShift(row, required_big_bite, current_big_bite) ==
    [row EXCEPT
        !.value_sales = row.value_sales + (required_big_bite - current_big_bite),
        !.unit_sales = row.unit_sales + (required_big_bite - current_big_bite),
        !.volume_sales = row.volume_sales + (required_big_bite - current_big_bite)]

\* sales_data.loc[mask, col] *= required / current, on the three columns
ScaleRow(row, required_big_bite, current_big_bite) ==
    [row EXCEPT
        !.value_sales = MulDiv(row.value_sales, required_big_bite, current_big_bite),
        !.unit_sales = MulDiv(row.unit_sales, required_big_bite, current_big_bite),
        !.volume_sales = MulDiv(row.volume_sales, required_big_bite, current_big_bite)]

\* a variant of AdjustMask that leaves the period out of the mask
AdjustMaskAllPeriods(sales_data, time_key, big_bite_products) ==
    BigBiteMask(sales_data, big_bite_products)

\* the rows the adjustment touches
AdjustMask(sales_data, time_key, big_bite_products) ==
    BothMasks(PeriodMask(sales_data, time_key),
              BigBiteMask(sales_data, big_bite_products))

\* required_big_bite = total_sales * (target_share / 100)
RequiredBigBite(total_sales, target_share) == MulDiv(total_sales, target_share, 20800)

\* adjust_for_target_share(sales_data, time_key, target_min, target_max) with the
\* quantile q for the draw of target_share; the two target arguments are not read
adjust_for_target_share(sales_data, time_key, big_bite_products, q) ==
    LET lo == adjusted_min(time_key)
        hi == adjusted_max(time_key)
        parts == MarketShareParts(sales_data, time_key, big_bite_products)
    IN IF ShareBelow(parts, lo) \/ ShareAbove(parts, hi)
       THEN LET target_share == Uniform(lo, hi, q)
                mask == AdjustMask(sales_data, time_key, big_bite_products)
                total_sales == SumWhere(sales_data, PeriodMask(sales_data, time_key),
                                        "value_sales")
                current_big_bite == SumWhere(sales_data, mask, "value_sales")
            IN IF current_big_bite > 0
               THEN [i \in 1..Len(sales_data) |->
                        IF mask[i]
                        THEN ScaleRow(sales_data[i],
                                      RequiredBigBite(total_sales, target_share),
                                      current_big_bite)
                        ELSE sales_data[i]]
               ELSE sales_data
       ELSE sales_data

\* whether the call draws target_share (it does when the share is out of band)
AdjustDraws(sales_data, time_key, big_bite_products) ==
    LET parts == MarketShareParts(sales_data, time_key, big_bite_products)
    IN IF ShareBelow(parts, adjusted_min(time_key))
          \/ ShareAbove(parts, adjusted_max(time_key)) THEN 1 ELSE 0

(***************************************************************************)
(* BrandStoryGenerator                                                     *)
(***************************************************************************)
\* brand_stories: annual_growth in thousandths, events as <<week, impact>>
\* with the impact in thousandths, the two product-name lists
brand_stories(brand) ==
    CASE brand = <<"BIG", "BITE", "CHOCOLATES">> ->
            [known |-> TRUE, annual_growth |-> 150,
             declining_products |-> {<<"BIG", "BITE", "ORIGINAL">>},
             star_products |-> {<<"BIG", "BITE", "DELUXE">>, <<"BIG", "BITE", "VELVET">>},
             events |-> <<<<2230, 1300>>, <<2280, 1200>>, <<2340, 1500>>>>]
      [] brand = <<"MONDELEZ">> ->
            [known |-> TRUE, annual_growth |-> 20, declining_products |-> {},
             star_products |-> {}, events |-> <<<<2250, 700>>, <<2320, 1100>>>>]
      [] brand = <<"MARS">> ->
            [known |-> TRUE, annual_growth |-> -50, declining_products |-> {},
             star_products |-> {}, events |-> <<<<2260, 850>>>>]
      [] brand = <<"PRIVATE", "LABEL">> ->
            [known |-> TRUE, annual_growth |-> 80, declining_products |-> {},
             star_products |-> {}, events |-> <<<<2300, 1150>>>>]
      [] brand = <<"LINDT">> ->
            [known |-> TRUE, annual_growth |-> 30, declining_products |-> {},
             star_products |-> {}, events |-> <<<<2245, 1100>>>>]
      [] brand = <<"FERRERO">> ->
            [known |-> TRUE, annual_growth |-> 60, declining_products |-> {},
             star_products |-> {}, events |-> <<<<2290, 1200>>>>]
      [] OTHER ->
            [known |-> FALSE, annual_growth |-> 0, declining_products |-> {},
             star_products |-> {}, events |-> <<>>]

\* a * n / d for a and n of either sign, rounded towards zero
SignedMulDiv(a, n, d) == IF (a < 0) # (n < 0) THEN 0 - MulDiv(Abs(a), Abs(n), d) ELSE MulDiv(Abs(a), Abs(n), d)

\* np.random.normal(1.0, 0.02) at quantile q, in thousandths (two sigma)
NormalNoise(q) == IF q < 250 THEN 960 ELSE IF q < 750 THEN 1000 ELSE 1040

\* exp(-0.5 * (distance / 2) ** 2) in thousandths, distance 0..4
EventDecay(distance) ==
    CASE distance = 0 -> 1000 [] distance = 1 -> 882 [] distance = 2 -> 607
      [] distance = 3 -> 325 [] OTHER -> 135

\* the base trend before noise, events and clamping:
\* 1.0 + annual_growth * years_elapsed, years_elapsed = (time_key - base_time) / 52
BaseTrend(annual_growth, time_key) ==
    1000 + SignedMulDiv(annual_growth, time_key - 2201, 52)

RECURSIVE ApplyEvents(_, _, _)
ApplyEvents(events, time_key, trend_mult) ==
    IF events = <<>> THEN trend_mult
    ELSE LET event == Head(events)
             distance == Abs(time_key - event[1])
         IN IF distance <= 4
            THEN ApplyEvents(Tail(events), time_key,
                    MulDiv(trend_mult,
                           1000 + SignedMulDiv(event[2] - 1000, EventDecay(distance), 1000),
                           1000))
            ELSE ApplyEvents(Tail(events), time_key, trend_mult)

\* get_trend_multiplier(brand, time_key) with quantile q for the noise draw
get_trend_multiplier(brand, time_key, q) ==
    LET story == brand_stories(brand)
        trend_mult == MulDiv(BaseTrend(story.annual_growth, time_key), NormalNoise(q), 1000)
    IN Max(100, Min(3000, ApplyEvents(story.events, time_key, trend_mult)))

\* get_product_lifecycle_multiplier(brand, product_name, time_key), thousandths
get_product_lifecycle_multiplier(brand, product_name, time_key) ==
    LET story == brand_stories(brand)
    IN IF product_name \in story.declining_products
       THEN Max(300, 1000 - 2 * (time_key - 2201))
       ELSE IF product_name \in story.star_products
       THEN Min(2500, 1000 + 3 * (time_key - 2201))
       ELSE 1000

(***************************************************************************)
(* TemporalSalesModel                                                      *)
(***************************************************************************)
\* prev_time_key = time_key - 1
PrevTimeKey(time_key) == time_key - 1

\* np.random.normal(0, prev_sales * 0.005) at quantile q (two sigma)
Epsilon(prev_sales, q) ==
    IF q < 250 THEN 0 - MulDiv(prev_sales, 10, 1000)
    ELSE IF q < 750 THEN 0 ELSE MulDiv(prev_sales, 10, 1000)

\* return max(0, final_sales)
NonNegative(final_sales) == Max(0, final_sales)

\* apply_temporal_smoothing(geo_key, product_key, time_key, base_sales, brand,
\* product_name) on the history `history` with the generator in state r:
\* [value, history, rng, branch]
apply_temporal_smoothing(history, r, geo_key, product_key, time_key, base_sales, brand, product_name) ==
    LET trend_mult == MulDiv(get_trend_multiplier(brand, time_key, Draw(r, 0)),
                             get_product_lifecycle_multiplier(brand, product_name, time_key),
                             1000)
        trended == MulDiv(base_sales, trend_mult, 1000)
        prev_key == <<geo_key, product_key, PrevTimeKey(time_key)>>
        current_key == <<geo_key, product_key, time_key>>
    IN IF DictHas(history, prev_key)
       THEN LET prev_sales == DictGet(history, prev_key)
                beta == Uniform(970, 1030, Draw(r, 1))
                epsilon == Epsilon(prev_sales, Draw(r, 2))
                smoothed_sales == MulDiv(prev_sales, beta, 1000) + epsilon
                final_sales == MulDiv(smoothed_sales, 85, 100) + MulDiv(trended, 15, 100)
            IN [value |-> NonNegative(final_sales),
                history |-> DictSet(history, current_key, final_sales),
                rng |-> Advance(r, 3), branch |-> "history"]
       ELSE LET final_sales == MulDiv(trended, Uniform(980, 1020, Draw(r, 1)), 1000)
            IN [value |-> NonNegative(final_sales),
                history |-> DictSet(history, current_key, final_sales),
                rng |-> Advance(r, 2), branch |-> "first"]

(***************************************************************************)
(* SeasonalModel                                                           *)
(***************************************************************************)
\* _identify_seasonal_products: the three key lists
SeasonalChristmas(products_df) ==
    {products_df[i].product_key : i \in
        {j \in 1..Len(products_df) :
            \/ \E w \in {"ADVENT", "CHRISTMAS", "SELECTION"} :
                  ContainsWord(products_df[j].subsegment_value, w)
            \/ \E w \in {"SEASONAL", "GIFTING"} :
                  ContainsWord(products_df[j].segment_value, w)}}
SeasonalEaster(products_df) ==
    {products_df[i].product_key : i \in
        {j \in 1..Len(products_df) :
            \E w \in {"EASTER", "EGG", "EGGS"} :
                ContainsWord(products_df[j].subsegment_value, w)}}
SeasonalValentine(products_df) ==
    {products_df[i].product_key : i \in
        {j \in 1..Len(products_df) :
            \E w \in {"VALENTINE", "HEART", "HEARTS"} :
                ContainsWord(products_df[j].subsegment_value, w)}}

\* a variant of ChristmasCurve that rises with the distance from the peak
ChristmasCurveRising(d) == 2000 + 400 * d

\* 5.0 * exp(-0.1 * d), 4.0 * exp(-0.15 * d), 2.5 * exp(-0.5 * d), thousandths
ChristmasCurve(d) ==
    CASE d = 0 -> 5000 [] d = 1 -> 4524 [] d = 2 -> 4094 [] d = 3 -> 3704
      [] d = 4 -> 3352 [] d = 5 -> 3033 [] d = 6 -> 2744 [] OTHER -> 2483
EasterCurve(d) ==
    CASE d = 0 -> 4000 [] d = 1 -> 3443 [] d = 2 -> 2963 [] d = 3 -> 2550
      [] OTHER -> 2195
ValentineCurve(d) == IF d = 0 THEN 2500 ELSE 1516

\* get_seasonal_multiplier(product_key, week_number) with quantile q for the
\* draw a regular product takes inside a window; thousandths
get_seasonal_multiplier(products_df, product_key, week_number, q) ==
    IF product_key \in SeasonalChristmas(products_df)
    THEN IF 44 <= week_number /\ week_number <= 52
         THEN Max(2000, ChristmasCurve(Abs(week_number - 51)))
         ELSE 100
    ELSE IF product_key \in SeasonalEaster(products_df)
    THEN IF 10 <= week_number /\ week_number <= 16
         THEN Max(2000, EasterCurve(Abs(week_number - 14)))
         ELSE 50
    ELSE IF product_key \in SeasonalValentine(products_df)
    THEN IF 5 <= week_number /\ week_number <= 7
         THEN Max(1500, ValentineCurve(Abs(week_number - 6)))
         ELSE 100
    ELSE IF 48 <= week_number /\ week_number <= 52 THEN Uniform(1100, 1300, q)
    ELSE IF 10 <= week_number /\ week_number <= 16 THEN Uniform(1200, 1400, q)
    ELSE IF 26 <= week_number /\ week_number <= 35 THEN Uniform(700, 800, q)
    ELSE 1000

\* the number of draws the call takes
SeasonalDraws(products_df, product_key, week_number) ==
    IF product_key \in SeasonalChristmas(products_df) \cup SeasonalEaster(products_df)
                       \cup SeasonalValentine(products_df)
    THEN 0
    ELSE IF \/ (48 <= week_number /\ week_number <= 52)
            \/ (10 <= week_number /\ week_number <= 16)
            \/ (26 <= week_number /\ week_number <= 35) THEN 1 ELSE 0

(***************************************************************************)
(* PriceElasticityModel                                                    *)
(***************************************************************************)
\* the elasticity's magnitude in thousandths, at quantile q
Elasticity(product_type, q) ==
    IF product_type = "premium" THEN 0 - Uniform(-600, -400, q)
    ELSE IF product_type = "value" THEN 0 - Uniform(-1500, -1200, q)
    ELSE 0 - Uniform(-1200, -800, q)

\* calculate_volume_from_price(base_volume, -price_reduction, product_type) for a
\* price cut of promo_pct (thousandths): base * (1 + elasticity * change / 100)
calculate_volume_from_price(base_volume, promo_pct, product_type, q) ==
    Max(0, base_volume + MulDiv(base_volume, Elasticity(product_type, q) * promo_pct,
                                1000000))

(***************************************************************************)
(* FactSalesGenerator                                                      *)
(***************************************************************************)
\* _get_week_number: ((time_key - 2201) % 52) + 1
_get_week_number(time_key) == ((time_key - 2201) % 52) + 1

_classify_product_type(product) ==
    IF product.manufacturer_value \in
          {<<"LINDT">>, <<"HOTEL", "CHOCOLAT">>, <<"GODIVA">>, <<"FERRERO">>}
    THEN "premium"
    ELSE IF \/ ContainsPhrase(product.manufacturer_value, "PRIVATE", "LABEL")
            \/ product.manufacturer_value \in {<<"ALDI">>, <<"LIDL">>}
    THEN "value"
    ELSE "standard"

\* price_per_unit in hundredths, at quantile q
PricePerUnit(product_type, q) ==
    IF product_type = "premium" THEN Uniform(1500, 5000, q)
    ELSE IF product_type = "value" THEN Uniform(100, 500, q)
    ELSE Uniform(200, 1500, q)

\* promo_pct = uniform(0, 0.4) if random() < 0.3 else 0, in thousandths; the
\* condition is drawn first, the uniform only when it holds
PromoPct(r) == IF Random(Draw(r, 0)) < 300 THEN Uniform(0, 400, Draw(r, 1)) ELSE 0
PromoDraws(r) == IF Random(Draw(r, 0)) < 300 THEN 2 ELSE 1

\* the body of the loop over geo_sales.items() for one item that is not
\* skipped: smoothing, price, promotion and the record:
\* [record, history, rng, branch]
SmoothOne(history, r, product, time_key, geo_key, base_sales) ==
    LET product_type == _classify_product_type(product)
    IN Strict(apply_temporal_smoothing(history, r, geo_key, product.product_key,
                  time_key, base_sales, product.manufacturer_value, product.brand_value),
        LAMBDA sm :
        LET smoothed_sales == sm.value
            price_per_unit == PricePerUnit(product_type, Draw(sm.rng, 0))
            r2 == Advance(sm.rng, 1)
            promo_pct == PromoPct(r2)
            r3 == Advance(sm.rng, 1 + PromoDraws(r2))
            volume_base == MulDiv(smoothed_sales, 100, price_per_unit)
            unit_sales == IF promo_pct > 0
                          THEN calculate_volume_from_price(volume_base, promo_pct,
                                                           product_type, Draw(r3, 0))
                          ELSE volume_base
            r4 == IF promo_pct > 0 THEN Advance(r3, 1) ELSE r3
        IN [record |->
               [geography_key |-> geo_key,
                product_key |-> product.product_key,
                time_key |-> time_key,
                value_sales |-> smoothed_sales,
                unit_sales |-> unit_sales,
                volume_sales |-> MulDiv(unit_sales, Uniform(100, 2000, Draw(r4, 0)), 1000),
                base_value_sales |-> MulDiv(smoothed_sales, 1000 - promo_pct, 1000),
                base_unit_sales |-> MulDiv(unit_sales, 1000 - promo_pct, 1000)],
            history |-> sm.history,
            rng |-> Advance(r4, 3),
            branch |-> sm.branch])

\* products.sample(n) at quantile q: a permutation of the rows
Sample(rows, q) ==
    IF Len(rows) < 2 \/ q < 250 THEN rows
    ELSE IF q < 750 THEN [i \in 1..Len(rows) |-> rows[Len(rows) + 1 - i]]
    ELSE Tail(rows) \o <<Head(rows)>>

\* pd.concat([sampled, big_bite]).drop_duplicates()
RECURSIVE DropDuplicates(_, _)
DropDuplicates(rows, seen) ==
    IF rows = <<>> THEN <<>>
    ELSE IF Head(rows) \in seen THEN DropDuplicates(Tail(rows), seen)
    ELSE <<Head(rows)>> \o DropDuplicates(Tail(rows), seen \cup {Head(rows)})

IsBigBite(product) == ContainsPhrase(product.brand_value, "BIG", "BITE")

\* the draws _add_promotional_placeholders takes for one record
PlaceholderDrawsOne(r) ==
    IF Random(Draw(r, 0)) < 200
    THEN LET a == IF Random(Draw(r, 1)) < 300 THEN 3 ELSE 1
             b == IF Random(Draw(r, 1 + a)) < 300 THEN 3 ELSE 1
             c == IF Random(Draw(r, 1 + a + b)) < 300 THEN 3 ELSE 1
         IN 1 + a + b + c
    ELSE 1

\* the generator after _write_records_to_year has written k records
RECURSIVE AfterPlaceholders(_, _)
AfterPlaceholders(r, k) ==
    IF k = 0 THEN r
    ELSE Strict(Advance(r, PlaceholderDrawsOne(r)),
                LAMBDA r1 : AfterPlaceholders(r1, k - 1))

\* _validate_constraints_sample at the end of the run raises when no year file
\* was opened (min() of no keys, outside its try block); every other failure
\* in it is caught and printed
ValidateSampleRaises(time_keys) == time_keys = <<>>

\* the entry of the period loop: the year files are opened and the products
\* sampled, the Big Bite products appended; with no period the loop body never
\* runs and the run goes straight to its end
StartRun ==
    /\ pc = "NotStarted"
    /\ sampled_products' = DropDuplicates(
            Sample(products, Draw(rng, 0)) \o SelectSeq(products, IsBigBite), {})
    /\ rng' = Advance(rng, 1)
    /\ pc' = IF time # <<>> THEN "PeriodLoop"
             ELSE IF ValidateSampleRaises(time) THEN "Error" ELSE "Done"
    /\ time_idx' = 1
    /\ product_idx' = 1
    /\ UNCHANGED <<timeVars, previous_run, time, period_records, sales_history, written, calls,
                   products, geography, geo_sales, geo_idx, alloc, share>>

\* a variant of SkipsProduct that skips on the draw alone
SkipsOnDrawAlone(seasonal_mult, u) == u > 100

\* `seasonal_mult < 0.2 and np.random.random() > 0.1`, u being the value the
\* draw gives when it is taken
SkipsProduct(seasonal_mult, u) == seasonal_mult < 200 /\ u > 100

\* the head of one iteration of the product loop: the seasonal multiplier, the
\* skip of an off-season product, and the allocation of the product's sales
AllocateProduct ==
    /\ pc = "PeriodLoop"
    /\ product_idx <= Len(sampled_products)
    /\ geo_idx > Len(geo_sales)
    /\ LET product == sampled_products[product_idx]
           time_key == time[time_idx]
           week_num == _get_week_number(time_key)
           seasonal_mult == get_seasonal_multiplier(products, product.product_key,
                                                    week_num, Draw(rng, 0))
           r1 == Advance(rng, SeasonalDraws(products, product.product_key, week_num))
           skip == SkipsProduct(seasonal_mult, Random(Draw(r1, 0)))
           r2 == IF seasonal_mult < 200 THEN Advance(r1, 1) ELSE r1
           seasonal_call == [op |-> "seasonal", idx |-> time_idx, time_key |-> time_key,
                             product_key |-> product.product_key,
                             week_number |-> week_num, seasonal_mult |-> seasonal_mult,
                             skipped |-> skip]
       IN IF skip
          THEN /\ rng' = r2
               /\ calls' = Append(calls, seasonal_call)
               /\ product_idx' = product_idx + 1
               /\ UNCHANGED <<pc, geo_sales, geo_idx>>
          ELSE LET out == generate_hierarchical_sales(geography, seasonal_mult, r2)
               IN IF out.error
                  THEN /\ pc' = "Error"
                       /\ rng' = r2
                       /\ calls' = Append(calls, seasonal_call)
                       /\ UNCHANGED <<product_idx, geo_sales, geo_idx>>
                  ELSE /\ geo_sales' = out.sales
                       /\ geo_idx' = 1
                       /\ rng' = out.rng
                       /\ calls' = calls \o
                             <<seasonal_call,
                               [op |-> "allocate", idx |-> time_idx,
                                time_key |-> time_key,
                                product_key |-> product.product_key]>>
                       /\ UNCHANGED <<pc, product_idx>>
    /\ UNCHANGED <<timeVars, previous_run, time, time_idx, period_records, sales_history, written,
                   products, geography, sampled_products, alloc, share>>

\* one iteration of the loop over geo_sales.items(); an allocation below 0.1
\* is skipped; after the last item the product loop moves on
SmoothPair ==
    /\ pc = "PeriodLoop"
    /\ geo_idx <= Len(geo_sales)
    /\ LET product == sampled_products[product_idx]
           time_key == time[time_idx]
           geo_key == geo_sales[geo_idx][1]
           base_sales == geo_sales[geo_idx][2]
       IN IF base_sales < 10
          THEN UNCHANGED <<period_records, sales_history, rng, calls>>
          ELSE LET out == SmoothOne(sales_history, rng, product, time_key,
                                    geo_key, base_sales)
               IN /\ period_records' = Append(period_records, out.record)
                  /\ sales_history' = out.history
                  /\ rng' = out.rng
                  /\ calls' = Append(calls,
                        [op |-> "smooth", idx |-> time_idx, time_key |-> time_key,
                         geo_key |-> geo_key, product_key |-> product.product_key,
                         branch |-> out.branch])
    /\ geo_idx' = geo_idx + 1
    /\ product_idx' = IF geo_idx = Len(geo_sales) THEN product_idx + 1 ELSE product_idx
    /\ UNCHANGED <<timeVars, previous_run, pc, time, time_idx, written, products, geography,
                   sampled_products, geo_sales, alloc, share>>

\* a variant of PeriodHasRecords under which no batch is adjusted or written
PeriodNeverHasRecords(records) == FALSE

\* whether the period's batch goes through the share adjustment and the writer
PeriodHasRecords(records) == records # <<>>

\* the end of one period: the share adjustment on the period's batch, the
\* write of the batch, and the step to the next period
FinishPeriod ==
    /\ pc = "PeriodLoop"
    /\ product_idx > Len(sampled_products)
    /\ LET time_key == time[time_idx]
           big_bite_products == _identify_big_bite_products(products)
       IN IF PeriodHasRecords(period_records)
          THEN LET period_df == adjust_for_target_share(period_records, time_key,
                                    big_bite_products, Draw(rng, 0))
                   r1 == Advance(rng, AdjustDraws(period_records, time_key,
                                                  big_bite_products))
               IN /\ written' = Append(written, [time_key |-> time_key,
                                                 records |-> period_df])
                  /\ calls' = Append(calls, [op |-> "adjust", idx |-> time_idx,
                                             time_key |-> time_key,
                                             changed |-> period_df # period_records])
                  /\ rng' = AfterPlaceholders(r1, Len(period_df))
          ELSE UNCHANGED <<written, calls, rng>>
    /\ period_records' = <<>>
    /\ product_idx' = 1
    /\ geo_sales' = <<>>
    /\ geo_idx' = 1
    /\ IF time_idx < Len(time)
       THEN time_idx' = time_idx + 1 /\ pc' = pc
       ELSE /\ time_idx' = time_idx
            /\ pc' = IF ValidateSampleRaises(time) THEN "Error" ELSE "Done"
    /\ UNCHANGED <<timeVars, previous_run, time, sales_history, products, geography,
                   sampled_products, alloc, share>>

(***************************************************************************)
(* Initial values of the parts a specification does not exercise           *)
(***************************************************************************)
Idle == [state |-> "idle"]

TimeIdle == times = <<>> /\ current_date = 0

\* no earlier run of the program
NoRun == [state |-> "none"]

RunIdle ==
    /\ pc = "NotStarted"
    /\ time = <<>>
    /\ time_idx = 0
    /\ product_idx = 0
    /\ period_records = <<>>
    /\ sales_history = <<>>
    /\ written = <<>>
    /\ calls = <<>>
    /\ rng = [stream |-> <<0>>, pos |-> 0]
    /\ products = <<>>
    /\ geography = <<>>
    /\ sampled_products = <<>>
    /\ geo_sales = <<>>
    /\ geo_idx = 1
    /\ previous_run = NoRun

(***************************************************************************)
(* SpecTime: one run of generate_time() with its default arguments         *)
(***************************************************************************)
InitTime == TimeIdle /\ RunIdle /\ alloc = Idle /\ share = Idle

NextTime == GenerateWeek

SpecTime == InitTime /\ [][NextTime]_vars

(***************************************************************************)
(* SpecAlloc: one call of generate_hierarchical_sales, for every stream    *)
(* and every base multiplier the seasonal model can hand over              *)
(* (thousandths: 0.05, 0.1, 1.0, 5.0)                                      *)
(***************************************************************************)
BaseMultipliers == {50, 100, 1000, 5000}

\* geography frames the model is constructed with: the generated table, the
\* table without its root row, and the table with its root row under another name
GeographyNoRoot == Tail(Geography)
GeographyRenamedRoot ==
    [Geography EXCEPT ![1].geography_description = <<"All", "Outlets">>]
AllocGeographies == {Geography, GeographyNoRoot, GeographyRenamedRoot}

InitAlloc ==
    /\ TimeIdle /\ RunIdle /\ share = Idle
    /\ \E m \in BaseMultipliers, s \in Streams, g \in AllocGeographies :
          alloc = [state |-> "call", rows |-> g, base_multiplier |-> m,
                   rng |-> [stream |-> s, pos |-> 0]]

AllocCall ==
    /\ alloc.state = "call"
    /\ LET out == generate_hierarchical_sales(alloc.rows, alloc.base_multiplier, alloc.rng)
       IN alloc' = [state |-> IF out.error THEN "raised" ELSE "returned",
                    rows |-> alloc.rows, base_multiplier |-> alloc.base_multiplier,
                    rng |-> out.rng, sales |-> out.sales]
    /\ UNCHANGED <<timeVars, runVars, share>>

NextAlloc == AllocCall

SpecAlloc == InitAlloc /\ [][NextAlloc]_vars

(***************************************************************************)
(* SpecReordered: one call of generate_hierarchical_sales on the generated *)
(* table and on the same rows with a child's row ahead of its parent's     *)
(***************************************************************************)
\* the Waitrose Online row moved ahead of the Waitrose row
GeographyChildFirst ==
    <<Geography[1], Geography[9], Geography[2], Geography[3], Geography[4],
      Geography[5], Geography[6], Geography[7], Geography[8]>>

InitReordered ==
    /\ TimeIdle /\ RunIdle /\ share = Idle
    /\ \E m \in BaseMultipliers, s \in Streams, g \in {Geography, GeographyChildFirst} :
          alloc = [state |-> "call", rows |-> g, base_multiplier |-> m,
                   rng |-> [stream |-> s, pos |-> 0]]

SpecReordered == InitReordered /\ [][NextAlloc]_vars

(***************************************************************************)
(* SpecShare: one call of adjust_for_target_share on a batch               *)
(***************************************************************************)
MaxRows == 3

\* value_sales of a row, in hundredths; unit and volume follow from it
RowValues == {0, 400, 6000}
RowTimes == {2201, 2301}

BatchRow(p, t, v) ==
    [geography_key |-> 27000001, product_key |-> p, time_key |-> t,
     value_sales |-> v, unit_sales |-> v \div 4, volume_sales |-> v \div 2,
     base_value_sales |-> v, base_unit_sales |-> v \div 4]

BatchRows == {BatchRow(p, t, v) : p \in {1, 2}, t \in RowTimes, v \in RowValues}

Batches == UNION {[1..n -> BatchRows] : n \in 0..MaxRows}

InitShare ==
    /\ TimeIdle /\ RunIdle /\ alloc = Idle
    /\ \E b \in Batches, t \in RowTimes :
          share = [state |-> "call", sales_data |-> b, time_key |-> t]

ShareCall ==
    /\ share.state = "call"
    /\ \E q \in Quantiles :
          share' = [state |-> "returned", sales_data |-> share.sales_data,
                    time_key |-> share.time_key, q |-> q,
                    result |-> adjust_for_target_share(share.sales_data, share.time_key,
                                  _identify_big_bite_products(Products), q)]
    /\ UNCHANGED <<timeVars, runVars, alloc>>

NextShare == ShareCall

SpecShare == InitShare /\ [][NextShare]_vars

(***************************************************************************)
(* SpecBand: the band adjust_for_target_share computes, for one call with  *)
(* a time key of the four years and target arguments of the caller's       *)
(***************************************************************************)
\* a variant of Band that lets the caller's targets bound the band
BandFromTargets(time_key, target_min, target_max) ==
    [adjusted_min |-> Max(target_min, adjusted_min(time_key)),
     adjusted_max |-> Min(target_max, adjusted_max(time_key))]

\* the first lines of adjust_for_target_share(sales_data, time_key, target_min,
\* target_max): the band, in 208ths of a percent
Band(time_key, target_min, target_max) ==
    [adjusted_min |-> adjusted_min(time_key), adjusted_max |-> adjusted_max(time_key)]

\* the first year week by week, the weeks around the caps and year boundaries
BandKeys == (2201..2252) \cup {2301, 2352, 2401, 2408, 2409, 2410, 2452, 2501, 2552}

\* (target_min, target_max): the defaults 4.0 and 10.0 that generate_fact_sales
\* passes, the whole range, and a single point
TargetPairs == {<<832, 2080>>, <<0, 20800>>, <<1040, 1040>>}

InitBand ==
    /\ TimeIdle /\ RunIdle /\ alloc = Idle
    /\ \E t \in BandKeys, targets \in TargetPairs :
          share = [state |-> "band_call", time_key |-> t,
                   target_min |-> targets[1], target_max |-> targets[2]]

BandCall ==
    /\ share.state = "band_call"
    /\ share' = [state |-> "band", time_key |-> share.time_key,
                 target_min |-> share.target_min, target_max |-> share.target_max,
                 band |-> Band(share.time_key, share.target_min, share.target_max)]
    /\ UNCHANGED <<timeVars, runVars, alloc>>

NextBand == BandCall

SpecBand == InitBand /\ [][NextBand]_vars

(***************************************************************************)
(* Spec: runs of generate_fact_sales over the first MaxPeriods periods of  *)
(* generate_time(start_date), for the default start date and for start     *)
(* dates that bring a year boundary and an event week into the window      *)
(***************************************************************************)
MaxPeriods == 3

\* 2022-01-01 (the default), 2022-12-24, 2023-12-23, as days since 2022-01-01
StartDates == {0, 357, 721}

\* the catalogs of the runs: the full one, one with columns and no rows, and
\* one with the advent-calendar product alone
SeasonalOnly == SelectSeq(Products, LAMBDA product : product.product_key = 3)
Catalogs == {Products, <<>>, SeasonalOnly}

Init ==
    /\ TimeIdle /\ alloc = Idle /\ share = Idle
    /\ pc = "NotStarted"
    /\ \E d \in StartDates, n \in {0, MaxPeriods} : time = GenerateTime(d, n)
    /\ time_idx = 0
    /\ product_idx = 0
    /\ period_records = <<>>
    /\ sales_history = <<>>
    /\ written = <<>>
    /\ calls = <<>>
    /\ \E s \in Streams : rng = [stream |-> s, pos |-> 0]
    /\ products \in Catalogs
    /\ geography = SmallGeography
    /\ sampled_products = <<>>
    /\ geo_sales = <<>>
    /\ geo_idx = 1
    /\ previous_run = NoRun

Next == StartRun \/ AllocateProduct \/ SmoothPair \/ FinishPeriod

Spec == Init /\ [][Next]_vars

(***************************************************************************)
(* SpecTwice: the program run, then run again on the same inputs, from the *)
(* default start date                                                      *)
(***************************************************************************)
\* a variant of Reseed that leaves the generator where the last run left it
ReseedNot(r) == r

\* np.random.seed(42) at import: the generator is back at the start of its stream
Reseed(r) == [r EXCEPT !.pos = 0]

\* the program is started again after a finished run: the module is imported
\* (and seeded) anew, the generators and models are constructed anew on the
\* same inputs, the year files are opened for writing
RunAgain ==
    /\ pc = "Done"
    /\ previous_run = NoRun
    /\ previous_run' = [state |-> "finished", written |-> written]
    /\ rng' = Reseed(rng)
    /\ pc' = "NotStarted"
    /\ time_idx' = 0
    /\ product_idx' = 0
    /\ period_records' = <<>>
    /\ sales_history' = <<>>
    /\ written' = <<>>
    /\ calls' = <<>>
    /\ sampled_products' = <<>>
    /\ geo_sales' = <<>>
    /\ geo_idx' = 1
    /\ UNCHANGED <<timeVars, time, products, geography, alloc, share>>

InitTwice == Init /\ time = GenerateTime(0, MaxPeriods) /\ products = Products

NextTwice == Next \/ RunAgain

SpecTwice == InitTwice /\ [][NextTwice]_vars

(***************************************************************************)
(* SpecYear: a run over the first YearPeriods periods of the default time  *)
(* dimension, a year and a week, with one product                          *)
(***************************************************************************)
YearPeriods == 53

\* the MARS product alone
OneProduct == SelectSeq(Products, LAMBDA product : product.product_key = 2)

InitYear ==
    /\ TimeIdle /\ alloc = Idle /\ share = Idle
    /\ pc = "NotStarted"
    /\ time = GenerateTime(0, YearPeriods)
    /\ time_idx = 0
    /\ product_idx = 0
    /\ period_records = <<>>
    /\ sales_history = <<>>
    /\ written = <<>>
    /\ calls = <<>>
    /\ \E s \in Streams : rng = [stream |-> s, pos |-> 0]
    /\ products = OneProduct
    /\ geography = SmallGeography
    /\ sampled_products = <<>>
    /\ geo_sales = <<>>
    /\ geo_idx = 1
    /\ previous_run = NoRun

SpecYear == InitYear /\ [][Next]_vars

(***************************************************************************)
(* SpecSmooth: direct calls of apply_temporal_smoothing on one series, for *)
(* consecutive time keys from 2201                                         *)
(***************************************************************************)
MaxCalls == 2

\* base_sales of a direct call, in hundredths
BaseSales == {-500, 0, 1000, 40000}

\* np.random.normal(0, prev_sales * 0.005) raises ValueError on a negative scale
EpsilonRaises(history, prev_key) ==
    DictHas(history, prev_key) /\ DictGet(history, prev_key) < 0

\* the models constructed, no run of generate_fact_sales started
DirectIdle ==
    /\ TimeIdle /\ alloc = Idle /\ share = Idle
    /\ pc = "Direct"
    /\ time = <<>>
    /\ time_idx = 0
    /\ product_idx = 0
    /\ period_records = <<>>
    /\ sales_history = <<>>
    /\ written = <<>>
    /\ calls = <<>>
    /\ \E s \in Streams : rng = [stream |-> s, pos |-> 0]
    /\ geography = SmallGeography
    /\ sampled_products = <<>>
    /\ geo_sales = <<>>
    /\ geo_idx = 1
    /\ previous_run = NoRun

InitSmooth == DirectIdle /\ products = Products

\* temporal_model.apply_temporal_smoothing(geo_key, product_key, time_key,
\* base_sales, brand, product_name) called directly
SmoothCall ==
    /\ pc = "Direct"
    /\ Len(calls) < MaxCalls
    /\ \E base_sales \in BaseSales :
          LET product == products[1]
              time_key == 2201 + Len(calls)
              prev_key == <<RootKey, product.product_key, PrevTimeKey(time_key)>>
          IN IF EpsilonRaises(sales_history, prev_key)
             THEN /\ pc' = "Error"
                  /\ rng' = Advance(rng, 2)
                  /\ UNCHANGED <<sales_history, calls>>
             ELSE LET out == apply_temporal_smoothing(sales_history, rng, RootKey,
                                product.product_key, time_key, base_sales,
                                product.manufacturer_value, product.brand_value)
                  IN /\ sales_history' = out.history
                     /\ rng' = out.rng
                     /\ calls' = Append(calls,
                           [op |-> "direct", time_key |-> time_key,
                            geo_key |-> RootKey, product_key |-> product.product_key,
                            base_sales |-> base_sales, value |-> out.value,
                            branch |-> out.branch])
                     /\ pc' = pc
    /\ UNCHANGED <<timeVars, previous_run, time, time_idx, product_idx, period_records,
                   written, products, geography, sampled_products, geo_sales, geo_idx,
                   alloc, share>>

NextSmooth == SmoothCall

SpecSmooth == InitSmooth /\ [][NextSmooth]_vars

(***************************************************************************)
(* SpecSeason: one direct call of get_seasonal_multiplier, for every       *)
(* product of a catalog with the seasonal subsegments and every week       *)
(***************************************************************************)
\* the catalog with an EASTER EGGS and a VALENTINE HEARTS product; the
\* generator draws both subsegments only inside the SEASONAL & GIFTING segment
SeasonalCatalog == Products \o <<
    [product_key |-> 4, manufacturer_value |-> <<"MONDELEZ">>,
     brand_value |-> <<"CADBURY">>,
     segment_value |-> <<"SEASONAL", "&", "GIFTING">>,
     subsegment_value |-> <<"EASTER", "EGGS">>],
    [product_key |-> 5, manufacturer_value |-> <<"FERRERO">>,
     brand_value |-> <<"FERRERO">>,
     segment_value |-> <<"SEASONAL", "&", "GIFTING">>,
     subsegment_value |-> <<"VALENTINE", "HEARTS">>] >>

Weeks == 1..52

InitSeason == DirectIdle /\ products = SeasonalCatalog

\* seasonal_model.get_seasonal_multiplier(product_key, week_number) called directly
SeasonalCall ==
    /\ pc = "Direct"
    /\ calls = <<>>
    /\ \E i \in 1..Len(products), week_number \in Weeks :
          LET product_key == products[i].product_key
          IN /\ calls' = <<[op |-> "season", product_key |-> product_key,
                            week_number |-> week_number, q |-> Draw(rng, 0),
                            seasonal_mult |-> get_seasonal_multiplier(products,
                                product_key, week_number, Draw(rng, 0))]>>
             /\ rng' = Advance(rng, SeasonalDraws(products, product_key, week_number))
    /\ UNCHANGED <<timeVars, previous_run, pc, time, time_idx, product_idx,
                   period_records, sales_history, written, products, geography,
                   sampled_products, geo_sales, geo_idx, alloc, share>>

NextSeason == SeasonalCall

SpecSeason == InitSeason /\ [][NextSeason]_vars

(***************************************************************************)
(* SpecStory: one direct call of get_trend_multiplier or of                *)
(* get_product_lifecycle_multiplier                                        *)
(***************************************************************************)
\* the brands with an authored story
AuthoredBrands ==
    {<<"BIG", "BITE", "CHOCOLATES">>, <<"MONDELEZ">>, <<"MARS">>,
     <<"PRIVATE", "LABEL">>, <<"LINDT">>, <<"FERRERO">>}

\* the authored brands and one without a story
StoryBrands == AuthoredBrands \cup {<<"NESTLE">>}

\* a declining product, a star product, a catalog brand_value and a name on
\* no list
StoryProducts ==
    {<<"BIG", "BITE", "ORIGINAL">>, <<"BIG", "BITE", "DELUXE">>,
     <<"Big", "Bite", "Original">>, <<"SNICKERS">>}

\* time keys a year before the epoch, around the epoch, whole multiples of 52
\* weeks after it, the first weeks of later years, and far after the ramps end
StoryKeys == {2101, 2152, 2201, 2202, 2253, 2301, 2305, 2357, 2401, 2552, 2752}

InitStory == DirectIdle /\ products = Products

\* brand_story_gen.get_trend_multiplier(brand, time_key) called directly; the
\* entry keeps trend_mult as it is before the noise
TrendCall ==
    /\ pc = "Direct"
    /\ calls = <<>>
    /\ \E brand \in StoryBrands, time_key \in StoryKeys :
          calls' = <<[op |-> "trend", brand |-> brand, time_key |-> time_key,
                      base_trend |-> BaseTrend(brand_stories(brand).annual_growth,
                                               time_key),
                      value |-> get_trend_multiplier(brand, time_key, Draw(rng, 0))]>>
    /\ rng' = Advance(rng, 1)
    /\ UNCHANGED <<timeVars, previous_run, pc, time, time_idx, product_idx,
                   period_records, sales_history, written, products, geography,
                   sampled_products, geo_sales, geo_idx, alloc, share>>

\* brand_story_gen.get_product_lifecycle_multiplier(brand, product_name,
\* time_key) called directly
LifecycleCall ==
    /\ pc = "Direct"
    /\ calls = <<>>
    /\ \E brand \in StoryBrands, product_name \in StoryProducts, time_key \in StoryKeys :
          calls' = <<[op |-> "lifecycle", brand |-> brand,
                      product_name |-> product_name, time_key |-> time_key,
                      value |-> get_product_lifecycle_multiplier(brand, product_name,
                                                                 time_key)]>>
    /\ UNCHANGED <<timeVars, previous_run, pc, time, time_idx, product_idx,
                   period_records, sales_history, written, rng, products, geography,
                   sampled_products, geo_sales, geo_idx, alloc, share>>

NextStory == TrendCall \/ LifecycleCall

SpecStory == InitStory /\ [][NextStory]_vars

(***************************************************************************)
(* Properties of adjust_for_target_share (SpecShare)                       *)
(***************************************************************************)
BigBiteKeys == _identify_big_bite_products(Products)

\* the call has returned and the brand's sales of the period were not zero
AdjustedWithBrandSales ==
    /\ share.state = "returned"
    /\ MarketShareParts(share.sales_data, share.time_key, BigBiteKeys)[1] # 0

\* C1: whenever the designated brand's value sales of the period are non-zero
\* before the call, the brand's share of the period's total value sales,
\* recomputed on the batch adjust_for_target_share returns, is neither below
\* adjusted_min nor above adjusted_max of the period, for every draw of the
\* target share and every split of the sales.
ShareWithinBandAfterAdjust ==
    AdjustedWithBrandSales =>
        LET after == MarketShareParts(share.result, share.time_key, BigBiteKeys)
        IN /\ ~ShareBelow(after, adjusted_min(share.time_key))
           /\ ~ShareAbove(after, adjusted_max(share.time_key))

\* the rows the claim designates: the brand's products in the call's period
DesignatedRow(row) ==
    row.time_key = share.time_key /\ row.product_key \in BigBiteKeys

\* the single factor of the call, as required / current
FactorParts ==
    LET parts == MarketShareParts(share.sales_data, share.time_key, BigBiteKeys)
    IN <<RequiredBigBite(parts[2],
                         Uniform(adjusted_min(share.time_key),
                                 adjusted_max(share.time_key), share.q)),
         parts[1]>>

\* C10: adjust_for_target_share for period t changes only rows of the
\* designated brand whose time key is t; a row it changes has its value_sales,
\* unit_sales and volume_sales multiplied by one and the same factor and its
\* other fields kept; every row of another brand or another period is returned
\* as it was.
AdjustTouchesOnlyBrandRowsOfPeriod ==
    share.state = "returned" =>
        /\ Len(share.result) = Len(share.sales_data)
        /\ \A i \in 1..Len(share.sales_data) :
              LET old == share.sales_data[i]
                  new == share.result[i]
              IN \/ new = old
                 \/ /\ DesignatedRow(old)
                    /\ new = [old EXCEPT
                          !.value_sales = MulDiv(old.value_sales, FactorParts[1],
                                                 FactorParts[2]),
                          !.unit_sales = MulDiv(old.unit_sales, FactorParts[1],
                                                FactorParts[2]),
                          !.volume_sales = MulDiv(old.volume_sales, FactorParts[1],
                                                  FactorParts[2])]

\* a call that rescaled a brand row of its period while the batch also holds a
\* brand row with sales of the other period and a row of another brand
AdjustChangedARowAmongOthers ==
    /\ share.state = "returned"
    /\ \E i \in 1..Len(share.sales_data) :
          /\ DesignatedRow(share.sales_data[i])
          /\ share.result[i].value_sales # share.sales_data[i].value_sales
    /\ \E i \in 1..Len(share.sales_data) :
          /\ share.sales_data[i].product_key \in BigBiteKeys
          /\ share.sales_data[i].time_key # share.time_key
          /\ share.sales_data[i].value_sales > 0
    /\ \E i \in 1..Len(share.sales_data) :
          /\ share.sales_data[i].product_key \notin BigBiteKeys
          /\ share.sales_data[i].value_sales > 0

\* the share of the batch handed to the call lies inside the period's band
ShareInBandBefore ==
    LET before == MarketShareParts(share.sales_data, share.time_key, BigBiteKeys)
    IN /\ before[2] > 0
       /\ ~FracLess(before[1], before[2], adjusted_min(share.time_key), 20800)
       /\ ~FracLess(adjusted_max(share.time_key), 20800, before[1], before[2])

\* C11: adjust_for_target_share returns (it does not raise) the batch with
\* every field of every row unchanged when the brand's value sales of the
\* period are zero (an empty period and a period of total zero included) or
\* when the brand's share already lies inside [adjusted_min, adjusted_max].
NoRescaleWhenZeroOrInBand ==
    (/\ share.state = "returned"
     /\ \/ MarketShareParts(share.sales_data, share.time_key, BigBiteKeys)[1] = 0
        \/ ShareInBandBefore)
    => share.result = share.sales_data

\* a call on a batch whose brand sales are positive and already in the band
InBandBatchReturned ==
    /\ share.state = "returned"
    /\ MarketShareParts(share.sales_data, share.time_key, BigBiteKeys)[1] > 0
    /\ ShareInBandBefore
    /\ share.result = share.sales_data

(***************************************************************************)
(* Properties of generate_hierarchical_sales (SpecAlloc)                   *)
(***************************************************************************)
\* the sum of the allocations of the nodes listed in keys
RECURSIVE SumAllocations(_, _)
SumAllocations(sales, keys) ==
    IF keys = <<>> THEN 0
    ELSE (IF DictHas(sales, Head(keys)) THEN DictGet(sales, Head(keys)) ELSE 0)
         + SumAllocations(sales, Tail(keys))

\* the keys of the rows whose parent is k
ChildKeys(rows, k) ==
    LET IsChildOf(row) == row.parent_key = k
        kids == SelectSeq(rows, IsChildOf)
    IN [i \in 1..Len(kids) |-> kids[i].geography_key]

\* C2: in the map generate_hierarchical_sales returns, the root allocation
\* divided by the sum of the level-1 allocations lies between 2.3 and 2.7,
\* for every root draw, jitter and clamp.
RootToLevel1RatioInTolerance ==
    alloc.state = "returned" =>
        LET root == DictGet(alloc.sales, RootKey)
            level1 == SumAllocations(alloc.sales, ChildKeys(alloc.rows, RootKey))
        IN 23 * level1 <= 10 * root /\ 10 * root <= 27 * level1

\* C3: in the map generate_hierarchical_sales returns, every node that has
\* children (the root and each level-1 node) has an allocation strictly
\* greater than the sum of the allocations of its children.
ParentExceedsChildren ==
    alloc.state = "returned" =>
        \A i \in 1..Len(alloc.rows) :
            LET k == alloc.rows[i].geography_key
                kids == ChildKeys(alloc.rows, k)
            IN kids # <<>> =>
                  DictGet(alloc.sales, k) > SumAllocations(alloc.sales, kids)

\* the tree has a root-level node: hierarchy level 0 and no parent
HasRootNode(rows) ==
    \E i \in 1..Len(rows) :
        rows[i].hierarchy_level = 0 /\ rows[i].parent_key = None

\* C12: generate_hierarchical_sales raises exactly when the geography tree has
\* no root-level node; when the tree has one, the call returns and the
\* returned map has an entry for that node.
RaisesExactlyWithoutRoot ==
    alloc.state \in {"returned", "raised"} =>
        /\ (alloc.state = "raised") <=> ~HasRootNode(alloc.rows)
        /\ alloc.state = "returned" =>
              \A i \in 1..Len(alloc.rows) :
                  (alloc.rows[i].hierarchy_level = 0 /\ alloc.rows[i].parent_key = None)
                  => DictHas(alloc.sales, alloc.rows[i].geography_key)

(***************************************************************************)
(* Properties of generate_time (SpecTime)                                  *)
(***************************************************************************)
\* C7: the time keys generate_time produces are unique, and each equals the
\* key of the period before it plus 1, from the first period on and across
\* every year boundary.
TimeKeysSequential ==
    /\ \A i \in 2..Len(times) : times[i] = times[i - 1] + 1
    /\ \A i, j \in 1..Len(times) : i # j => times[i] # times[j]

(***************************************************************************)
(* Properties of generate_fact_sales (Spec)                                *)
(***************************************************************************)
CallsOf(ops) == {i \in 1..Len(calls) : calls[i].op \in ops}

\* C4: when a (geography, product) series was smoothed in the period just
\* before the current one in the period sequence, the smoothing of the
\* current period takes the history branch, for every pair of consecutive
\* periods, the last week of a year followed by the first of the next included.
HistoryBranchOnConsecutivePeriods ==
    \A i, j \in CallsOf({"smooth"}) :
        (/\ calls[j].idx = calls[i].idx + 1
         /\ calls[j].geo_key = calls[i].geo_key
         /\ calls[j].product_key = calls[i].product_key)
        => calls[j].branch = "history"

\* C5: the periods are processed in strictly increasing time-key order: the
\* time key of a processed period is greater than that of every period
\* processed before it.
PeriodsInIncreasingKeyOrder ==
    \A i, j \in CallsOf({"seasonal"}) :
        calls[i].idx < calls[j].idx => calls[i].time_key < calls[j].time_key

\* whether the loop has left the period at position k
PeriodOver(k) == pc = "Done" \/ (pc = "PeriodLoop" /\ time_idx > k)

\* C6: for every period that yields an observation, adjust_for_target_share
\* is invoked exactly once, after every allocation and smoothing call of that
\* period and before any allocation or smoothing call of a later period.
AdjustOncePerPeriodBetweenPeriods ==
    /\ \A a \in CallsOf({"adjust"}), c \in CallsOf({"allocate", "smooth"}) :
          (c < a) <=> (calls[c].idx <= calls[a].idx)
    /\ \A a, b \in CallsOf({"adjust"}) : calls[a].idx = calls[b].idx => a = b
    /\ \A c \in CallsOf({"smooth"}) :
          PeriodOver(calls[c].idx) =>
              \E a \in CallsOf({"adjust"}) : calls[a].idx = calls[c].idx

\* a finished run in which two periods yielded observations and were adjusted
TwoPeriodsAdjusted ==
    /\ pc = "Done"
    /\ \E a, b \in CallsOf({"adjust"}) : calls[a].idx < calls[b].idx
    /\ \E c, d \in CallsOf({"smooth"}) : calls[c].idx < calls[d].idx

\* C8: the week number _get_week_number derives from a period's time key and
\* hands to the seasonal model lies in 1..52 and equals the week the key
\* encodes (time_key mod 100).
WeekNumberMatchesKey ==
    \A c \in CallsOf({"seasonal"}) :
        /\ calls[c].week_number \in 1..52
        /\ calls[c].week_number = calls[c].time_key % 100

\* C9: every observation handed to the writer has value_sales >= 0 and
\* unit_sales >= 0, in every period, after the share adjustment.
WrittenSalesNonNegative ==
    \A w \in 1..Len(written) :
        \A i \in 1..Len(written[w].records) :
            /\ written[w].records[i].value_sales >= 0
            /\ written[w].records[i].unit_sales >= 0

\* a batch was written after the share adjustment had changed it
AdjustedBatchWritten ==
    /\ written # <<>>
    /\ \E a \in CallsOf({"adjust"}) : calls[a].changed
    /\ \E w \in 1..Len(written) : Len(written[w].records) >= 2

\* C13: a run of generate_fact_sales with an empty product catalog, and a run
\* with an empty period sequence, each end in an error and never reach the
\* normal end of the run.
EmptyInputsAbort ==
    (products = <<>> \/ time = <<>>) => pc # "Done"

\* C15: every observation handed to the writer has base_unit_sales <=
\* unit_sales, with or without a promotion and whatever the share adjustment
\* did to the record.
WrittenBaseUnitsWithinUnits ==
    \A w \in 1..Len(written) :
        \A i \in 1..Len(written[w].records) :
            written[w].records[i].base_unit_sales <= written[w].records[i].unit_sales

MultiplierInWeek(c, w) ==
    get_seasonal_multiplier(products, calls[c].product_key, w, calls[c].q)

\* C17: for a Christmas-tagged product get_seasonal_multiplier returns exactly
\* 0.1 in every week outside 44..52 and at least 2.0 in every week of 44..52,
\* with its maximum at week 51 and no greater value at a greater distance from
\* week 51; every in-window value is at least 10 times the off-season value.
ChristmasRule ==
    \A c \in CallsOf({"season"}) :
        calls[c].product_key \in SeasonalChristmas(products) =>
            LET week == calls[c].week_number
                mult == calls[c].seasonal_mult
            IN IF week \in 44..52
               THEN /\ mult >= 2000
                    /\ mult <= MultiplierInWeek(c, 51)
                    /\ \A w \in 44..52 :
                          Abs(w - 51) >= Abs(week - 51) => MultiplierInWeek(c, w) <= mult
                    /\ \A w \in Weeks \ (44..52) : mult >= 10 * MultiplierInWeek(c, w)
               ELSE mult = 100

\* the advent-calendar product was asked for at week 45, inside the window
\* and away from the peak
ChristmasAskedInWindow ==
    \E c \in CallsOf({"season"}) :
        /\ calls[c].product_key = 3
        /\ calls[c].week_number = 45
        /\ calls[c].seasonal_mult < MultiplierInWeek(c, 51)

\* the product's subsegment marks it as Easter
EasterMarked(product) ==
    \E i \in 1..Len(product.subsegment_value) :
        product.subsegment_value[i] \in {"EASTER", "EGG", "EGGS"}

\* C18: every catalog product whose subsegment marks it as Easter gets the
\* Easter rule: at least 2.0 in the weeks 10..16 with the maximum at week 14,
\* and 0.05 in every other week.
EasterRule ==
    \A c \in CallsOf({"season"}) :
        \A i \in 1..Len(products) :
            (products[i].product_key = calls[c].product_key /\ EasterMarked(products[i]))
            => IF calls[c].week_number \in 10..16
               THEN /\ calls[c].seasonal_mult >= 2000
                    /\ calls[c].seasonal_mult <= MultiplierInWeek(c, 14)
               ELSE calls[c].seasonal_mult = 50

(***************************************************************************)
(* Properties of the smoothed series and of the written batches (Spec)     *)
(***************************************************************************)
\* the time keys at which the series (geo_key, product_key) has a smoothed
\* value in the period before and in the period itself
ChangeKeys(geo_key, product_key) ==
    {k \in DictKeys(sales_history) :
        /\ k[1] = geo_key /\ k[2] = product_key
        /\ DictHas(sales_history, <<geo_key, product_key, PrevTimeKey(k[3])>>)}

\* |week-over-week change| of the smoothed value at key k, in hundredths of a
\* percent of the value of the period before
AbsPctChange(k) ==
    LET prev_sales == DictGet(sales_history, <<k[1], k[2], PrevTimeKey(k[3])>>)
        final_sales == DictGet(sales_history, k)
    IN MulDiv(Abs(final_sales - prev_sales), 10000, prev_sales)

\* twice the median of the values AbsPctChange takes on the keys ks
TwiceMedianChange(ks) ==
    LET n == Cardinality(ks)
        order == SortSeq(CHOOSE f \in [1..n -> ks] : \A k \in ks : \E i \in 1..n : f[i] = k,
                         LAMBDA a, b : AbsPctChange(a) < AbsPctChange(b))
    IN IF n % 2 = 1 THEN 2 * AbsPctChange(order[(n + 1) \div 2])
       ELSE AbsPctChange(order[n \div 2]) + AbsPctChange(order[n \div 2 + 1])

\* C19: at the end of a run, every (geography, product) series smoothed in two
\* or more consecutive periods has a median absolute week-over-week change of
\* its smoothed values below 10%.
MedianWeeklyChangeBelowTenPercent ==
    pc = "Done" =>
        \A k \in DictKeys(sales_history) :
            ChangeKeys(k[1], k[2]) # {} => TwiceMedianChange(ChangeKeys(k[1], k[2])) < 2 * 1000

\* C20: at the end of a run the writer has received exactly one batch for each
\* period of the period sequence, in the order of the periods, and every
\* observation of a period's batch carries that period's time key.
OneBatchPerPeriodInOrder ==
    pc = "Done" =>
        /\ Len(written) = Len(time)
        /\ \A k \in 1..Len(written) :
              /\ written[k].time_key = time[k]
              /\ \A n \in 1..Len(written[k].records) :
                    written[k].records[n].time_key = time[k]

(***************************************************************************)
(* Properties of the share band (SpecBand)                                 *)
(***************************************************************************)
\* C21: for every time key from 2201 on, the band computed by
\* adjust_for_target_share has 4 <= adjusted_min <= 7, 6 <= adjusted_max <= 10
\* and adjusted_min < adjusted_max; both bounds are non-decreasing in the time
\* key and are the same whatever target_min and target_max the caller passes.
BandWithinCapsMonotoneAndTargetFree ==
    share.state = "band" =>
        /\ 832 <= share.band.adjusted_min /\ share.band.adjusted_min <= 1456
        /\ 1248 <= share.band.adjusted_max /\ share.band.adjusted_max <= 2080
        /\ share.band.adjusted_min < share.band.adjusted_max
        /\ \A t \in BandKeys :
              t >= share.time_key =>
                  \A targets \in TargetPairs :
                      /\ Band(t, targets[1], targets[2]).adjusted_min
                            >= share.band.adjusted_min
                      /\ Band(t, targets[1], targets[2]).adjusted_max
                            >= share.band.adjusted_max
        /\ \A targets \in TargetPairs :
              Band(share.time_key, targets[1], targets[2]) = share.band

\* a call with targets other than the defaults, at a time key where both
\* bounds are between their start and their cap
BandGrowingUnderOtherTargets ==
    /\ share.state = "band"
    /\ share.time_key = 2301
    /\ share.target_min = 1040 /\ share.target_max = 1040
    /\ share.band = [adjusted_min |-> 1132, adjusted_max |-> 1648]

(***************************************************************************)
(* Properties of the brand stories (SpecStory, SpecTime)                   *)
(***************************************************************************)
\* (1 + r) ^ y in thousandths, for r in thousandths and y in 0..3, rounded down
Compounded(r, y) ==
    CASE y = 0 -> 1000
      [] y = 1 -> 1000 + r
      [] y = 2 -> ((1000 + r) * (1000 + r)) \div 1000
      [] OTHER -> ((1000 + r) * (1000 + r) * (1000 + r)) \div 1000000

\* C22: before noise, events and clamping, the base trend of a brand with
\* annual growth r after y whole elapsed years (52 * y weeks after the epoch)
\* is the compounded factor (1 + r) ^ y, to within a thousandth.
BaseTrendIsCompounded ==
    \A c \in CallsOf({"trend"}) :
        LET weeks_elapsed == calls[c].time_key - 2201
        IN (weeks_elapsed >= 0 /\ weeks_elapsed % 52 = 0 /\ weeks_elapsed \div 52 <= 3)
           => Abs(calls[c].base_trend
                  - Compounded(brand_stories(calls[c].brand).annual_growth,
                               weeks_elapsed \div 52)) <= 1

\* C23: get_product_lifecycle_multiplier returns a value in [0.3, 1.0] for a
\* product on the brand's declining list, a value in [1.0, 2.5] for a product
\* on the brand's star list, and exactly 1.0 for any other product or brand,
\* at every time key.
LifecycleWithinRanges ==
    \A c \in CallsOf({"lifecycle"}) :
        LET story == brand_stories(calls[c].brand)
            value == calls[c].value
        IN IF calls[c].product_name \in story.declining_products
           THEN 300 <= value /\ value <= 1000
           ELSE IF calls[c].product_name \in story.star_products
           THEN 1000 <= value /\ value <= 2500
           ELSE value = 1000

\* every event of every authored story, as <<week, impact>>
AuthoredEvents ==
    UNION {{brand_stories(b).events[i] : i \in 1..Len(brand_stories(b).events)} :
             b \in AuthoredBrands}

\* C30: once the time dimension is generated, every authored event week has
\* a time key of the dimension within 4 of it, so that get_trend_multiplier
\* applies the event in at least one period.
EveryEventHasAPeriod ==
    Len(times) = NWeeks =>
        \A event \in AuthoredEvents :
            \E i \in 1..Len(times) : Abs(times[i] - event[1]) <= 4

(***************************************************************************)
(* Properties of the product loop and of the history (Spec)                *)
(***************************************************************************)
\* the keys of the root row and of the level-1 rows of the geography
RootAndLevel1Keys ==
    {geography[i].geography_key : i \in
        {j \in 1..Len(geography) :
            geography[j].parent_key = None \/ geography[j].hierarchy_level = 1}}

\* whether the batch written for time_key holds an observation of the pair
Observed(time_key, geo_key, product_key) ==
    \E k \in 1..Len(written) :
        /\ written[k].time_key = time_key
        /\ \E n \in 1..Len(written[k].records) :
              /\ written[k].records[n].geography_key = geo_key
              /\ written[k].records[n].product_key = product_key

\* C24: a sampled product is omitted from a period only if its seasonal
\* multiplier for the period's week is below 0.2; a product whose multiplier is
\* 0.2 or more has, once the period is written, an observation for the root
\* geography and for every level-1 geography.
OmittedOnlyOffSeason ==
    \A c \in CallsOf({"seasonal"}) :
        /\ calls[c].skipped => calls[c].seasonal_mult < 200
        /\ (calls[c].seasonal_mult >= 200 /\ PeriodOver(calls[c].idx))
           => \A g \in RootAndLevel1Keys :
                 Observed(calls[c].time_key, g, calls[c].product_key)

\* a finished run in which a product was skipped in one period and another
\* product, in season enough, was observed
SkippedAndObserved ==
    /\ pc = "Done"
    /\ \E c, e \in CallsOf({"seasonal"}) :
          /\ calls[c].skipped
          /\ calls[e].seasonal_mult >= 200
          /\ Observed(calls[e].time_key, RootKey, calls[e].product_key)

\* C25: the smoother's history only grows and is written once per series per
\* period: no step removes an entry or changes an entry already written, and
\* every smoothing call adds exactly one entry, for its own series.
HistoryWrittenOncePerSeriesAndPeriod ==
    [][/\ \A k \in DictKeys(sales_history) :
             /\ DictHas(sales_history', k)
             /\ DictGet(sales_history', k) = DictGet(sales_history, k)
       /\ (Len(calls') = Len(calls) + 1 /\ calls'[Len(calls')].op = "smooth")
          => /\ Len(sales_history') = Len(sales_history) + 1
             /\ sales_history'[Len(sales_history')][1]
                   = <<calls'[Len(calls')].geo_key, calls'[Len(calls')].product_key,
                       calls'[Len(calls')].time_key>>]_vars

\* the records and the history after smoothing the current product's pairs
\* number first and then second of geo_sales, from the current state
SmoothedInOrder(first, second) ==
    LET product == sampled_products[product_idx]
        time_key == time[time_idx]
        a == SmoothOne(sales_history, rng, product, time_key,
                       geo_sales[first][1], geo_sales[first][2])
        b == SmoothOne(a.history, a.rng, product, time_key,
                       geo_sales[second][1], geo_sales[second][2])
    IN [records |-> {a.record, b.record},
        history |-> {b.history[i] : i \in 1..Len(b.history)}]

\* C26: within a period the observations and the history do not depend on the
\* order in which the pairs are smoothed: for the first two allocated pairs
\* of a product, smoothing them in either order gives the same records and
\* the same history.
SmoothingOrderIrrelevant ==
    (/\ pc = "PeriodLoop" /\ product_idx <= Len(sampled_products)
     /\ geo_idx = 1 /\ Len(geo_sales) >= 2
     /\ geo_sales[1][2] >= 10 /\ geo_sales[2][2] >= 10)
    => SmoothedInOrder(1, 2) = SmoothedInOrder(2, 1)

\* C28: whatever the order of the rows, the hierarchy lists for every node
\* exactly the nodes whose parent key is that node, and every level-2 row,
\* also one that comes before its parent's row, receives an allocation.
HierarchyListsEveryChild ==
    alloc.state = "returned" =>
        LET rows == alloc.rows
            h == _build_hierarchy(rows)
        IN /\ \A i \in 1..Len(rows) :
                 /\ DictHas(h, rows[i].geography_key)
                 /\ LET children == DictGet(h, rows[i].geography_key)
                    IN {children[c] : c \in 1..Len(children)}
                          = {rows[j].geography_key : j \in
                               {n \in 1..Len(rows) :
                                   rows[n].parent_key = rows[i].geography_key}}
           /\ \A i \in 1..Len(rows) :
                 rows[i].hierarchy_level = 2 => DictHas(alloc.sales, rows[i].geography_key)

\* the rows of the call's table at a hierarchy level that received an allocation
AllocatedAt(level) ==
    {i \in 1..Len(alloc.rows) :
        /\ alloc.rows[i].hierarchy_level = level
        /\ DictHas(alloc.sales, alloc.rows[i].geography_key)}

ChildBelowParentShare ==
    alloc.state = "returned" =>
        \A i \in AllocatedAt(2) :
            LET child_sales == DictGet(alloc.sales, alloc.rows[i].geography_key)
                store_sales == DictGet(alloc.sales, alloc.rows[i].parent_key)
            IN /\ child_sales > 0
               /\ child_sales < store_sales
               /\ IF HasWord(alloc.rows[i].geography_description, "Online")
                  THEN 10 * child_sales <= 3 * store_sales
                  ELSE 100 * child_sales <= 35 * store_sales

\* a returned map in which one parent has an Online child above 25% of it
\* and another child above 30% of it
ChildrenNearTheirLimits ==
    /\ alloc.state = "returned"
    /\ \E i, j \in AllocatedAt(2) :
          /\ alloc.rows[i].parent_key = alloc.rows[j].parent_key
          /\ HasWord(alloc.rows[i].geography_description, "Online")
          /\ ~HasWord(alloc.rows[j].geography_description, "Online")
          /\ 4 * DictGet(alloc.sales, alloc.rows[i].geography_key)
                > DictGet(alloc.sales, alloc.rows[i].parent_key)
          /\ 10 * DictGet(alloc.sales, alloc.rows[j].geography_key)
                > 3 * DictGet(alloc.sales, alloc.rows[j].parent_key)

====
